---- MODULE Spec2Model ----
(***************************************************************************)
(* Model of homeassistant/components/device_automation/trigger.py:         *)
(* async_validate_trigger_config and async_attach_trigger, run by one      *)
(* caller against the external collaborators (platform resolver, device    *)
(* registry, config-entry manager, trigger platform).  The collaborators'  *)
(* answers are nondeterministic; every invocation of a collaborator is     *)
(* recorded in `trace` in the order the code makes it.                     *)
(***************************************************************************)
EXTENDS Integers, Sequences, FiniteSets, TLC

VARIABLES registry, entries, pc, op, config, action, trigger_info, platform,
          device_config_entry, ready, trace, delegated, platret, raised,
          raisedBy, outcome, retval, error, calls, resolves, validated

vars == <<registry, entries, pc, op, config, action, trigger_info, platform,
          device_config_entry, ready, trace, delegated, platret, raised,
          raisedBy, outcome, retval, error, calls, resolves, validated>>

(* ------------------------------ bounds --------------------------------- *)
MaxEntries == 2
MaxCalls == 2

(* ------------------------------ values --------------------------------- *)
Absent == "absent"
Domains == {"light", "other"}
DeviceIds == {"d1", "d2"}
EntryIds == {"a", "b", "c"}
Actions == {"action1", "action2"}
TriggerInfos == {"info1", "info2"}
Handles == {"detach1", "detach2"}
Messages == {"", "explicit message"}

InvalidDeviceAutomationConfig == "InvalidDeviceAutomationConfig"
VolInvalid == "vol.Invalid"
ErrKinds == {InvalidDeviceAutomationConfig, VolInvalid, "HomeAssistantError"}
DefaultMessage == "Invalid trigger configuration"

\* a trigger configuration: the two required keys and one integration key
Configs == [domain : Domains, device_id : DeviceIds, extra : {"raw"}]
\* what a schema or a dynamic validator may hand back for a configuration
Validated(c) == {[c EXCEPT !.extra = x] : x \in {"raw", "coerced"}}

\* errors a collaborator can raise, and the errors a static schema raises
Errors == [kind : ErrKinds, msg : Messages, cause : {"none"}]
SchemaErrors == {e \in Errors : e.kind = VolInvalid}

\* a platform module either defines async_validate_trigger_config or not
Platforms == [dynamic : BOOLEAN]

\* ordered, duplicate-free lists of entry ids of a device
EntrySeqs ==
  {s \in UNION {[1..n -> EntryIds] : n \in 0..MaxEntries} :
      \A i, j \in 1..Len(s) : i # j => s[i] # s[j]}

\* a device registry entry, and the registry's answer for an unknown id
Devices == [config_entries : EntrySeqs]
NoDevice == <<>>

Ev(e, a) == [ev |-> e, arg |-> a]

(* ------------------------- pure parts of the code ---------------------- *)
\* hasattr(platform, "async_validate_trigger_config")
HasDynamicValidator(p) == p.dynamic

\* the for loop over device.config_entries: the position at which the loop
\* breaks with a match, or 0 when it runs off the end of the list
RECURSIVE ScanLastMatch(_, _, _)
ScanLastMatch(ids, i, domain) ==
  IF i > Len(ids) THEN 0
  ELSE LET rest == ScanLastMatch(ids, i + 1, domain)
       IN IF rest # 0 THEN rest
          ELSE IF entries[ids[i]] = domain THEN i ELSE 0

RECURSIVE ScanStopAtMissing(_, _, _)
ScanStopAtMissing(ids, i, domain) ==
  IF i > Len(ids) THEN 0
  ELSE IF entries[ids[i]] = Absent THEN 0
  ELSE IF entries[ids[i]] # domain THEN ScanStopAtMissing(ids, i + 1, domain)
  ELSE i

RECURSIVE ScanEntries(_, _, _)
ScanEntries(ids, i, domain) ==
  IF i > Len(ids) THEN 0
  ELSE IF entries[ids[i]] = Absent THEN ScanEntries(ids, i + 1, domain)
  ELSE IF entries[ids[i]] # domain THEN ScanEntries(ids, i + 1, domain)
  ELSE i

\* the async_get_entry calls the loop makes when it stops at position k
\* (k = 0: it looked at every id)
Lookups(ids, k) ==
  [i \in 1..(IF k = 0 THEN Len(ids) ELSE k) |-> Ev("get_entry", ids[i])]

\* str(err) or "Invalid trigger configuration"
StrOrAlwaysDefault(err) == DefaultMessage

StrOrDefault(err) == IF err.msg # "" THEN err.msg ELSE DefaultMessage

\* the except clause of async_validate_trigger_config: what the caller sees
\* when err is raised inside the try block
ExceptNothing(err) == err

ExceptEverything(err) ==
  [kind |-> VolInvalid, msg |-> StrOrDefault(err), cause |-> err.kind]

Except(err) ==
  IF err.kind = InvalidDeviceAutomationConfig
  THEN [kind |-> VolInvalid, msg |-> StrOrDefault(err), cause |-> err.kind]
  ELSE err

\* the arguments async_attach_trigger hands to platform.async_attach_trigger
AttachArgsSwapped(c, a, t) == <<c, t, a>>

AttachArgs(c, a, t) == <<c, a, t>>

\* `raise InvalidDeviceAutomationConfig` with no arguments
Bare == [kind |-> InvalidDeviceAutomationConfig, msg |-> "", cause |-> "none"]

(* ------------------------------- Init ---------------------------------- *)
Init ==
  /\ registry \in [DeviceIds -> {NoDevice} \cup {<<d>> : d \in Devices}]
  /\ registry["d2"] = NoDevice
  /\ registry["d1"] # NoDevice
  /\ entries \in [EntryIds -> Domains \cup {Absent}]
  /\ pc = "idle"
  /\ op = "none"
  /\ config = <<>>
  /\ action = "none"
  /\ trigger_info = "none"
  /\ platform = <<>>
  /\ device_config_entry = <<>>
  /\ ready = <<>>
  /\ trace = <<>>
  /\ delegated = <<>>
  /\ platret = <<>>
  /\ raised = <<>>
  /\ raisedBy = "none"
  /\ outcome = "none"
  /\ retval = <<>>
  /\ error = <<>>
  /\ calls = 0
  /\ resolves = 0
  /\ validated = {}

env == <<registry, entries>>
args == <<op, config, action, trigger_info>>
counters == <<calls, validated>>

\* the call ends by raising err out of the try block of validate
RaiseInTry(err, by) ==
  /\ raised' = <<err>>
  /\ raisedBy' = by
  /\ outcome' = "raised"
  /\ error' = <<Except(err)>>
  /\ retval' = <<>>
  /\ pc' = "done"

\* the call ends by raising err where no handler is in scope
RaiseBare(err, by) ==
  /\ raised' = <<err>>
  /\ raisedBy' = by
  /\ outcome' = "raised"
  /\ error' = <<err>>
  /\ retval' = <<>>
  /\ pc' = "done"

ReturnValue(v) ==
  /\ outcome' = "returned"
  /\ retval' = <<v>>
  /\ pc' = "done"
  /\ UNCHANGED <<raised, raisedBy, error>>

(* ---------------- async_validate_trigger_config ------------------------- *)
\* the caller starts validate(config)
CallValidate(c) ==
  /\ pc = "idle"
  /\ calls < MaxCalls
  /\ op' = "validate"
  /\ config' = c
  /\ action' = "none"
  /\ trigger_info' = "none"
  /\ calls' = calls + 1
  /\ validated' = validated \cup {c}
  /\ pc' = "v_resolve"
  /\ UNCHANGED <<env, platform, device_config_entry, ready, trace, delegated,
                 platret, raised, raisedBy, outcome, retval, error, resolves>>

\* await async_get_device_automation_platform(...) returns a platform
ValidateResolved(p) ==
  /\ pc = "v_resolve"
  /\ trace' = Append(trace, Ev("resolve", config.domain))
  /\ resolves' = resolves + 1
  /\ platform' = <<p>>
  /\ pc' = "v_hasattr"
  /\ UNCHANGED <<env, args, counters, device_config_entry, ready, delegated,
                 platret, raised, raisedBy, outcome, retval, error>>

\* await async_get_device_automation_platform(...) raises
ValidateResolveRaises(err) ==
  /\ pc = "v_resolve"
  /\ trace' = Append(trace, Ev("resolve", config.domain))
  /\ resolves' = resolves + 1
  /\ RaiseInTry(err, "resolver")
  /\ UNCHANGED <<env, args, counters, platform, device_config_entry, ready,
                 delegated, platret>>

\* no dynamic validator: return platform.TRIGGER_SCHEMA(config)
ValidateStaticReturnsConfig ==
  /\ pc = "v_hasattr"
  /\ ~HasDynamicValidator(platform[1])
  /\ \E out \in Validated(config) :
     /\ trace' = Append(trace, Ev("schema", ""))
     /\ delegated' = <<config>>
     /\ platret' = <<out>>
     /\ ReturnValue(config)
     /\ UNCHANGED <<env, args, counters, platform, device_config_entry, ready,
                    resolves>>

ValidateStatic ==
  /\ pc = "v_hasattr"
  /\ ~HasDynamicValidator(platform[1])
  /\ \E out \in Validated(config) :
     /\ trace' = Append(trace, Ev("schema", ""))
     /\ delegated' = <<config>>
     /\ platret' = <<out>>
     /\ ReturnValue(out)
     /\ UNCHANGED <<env, args, counters, platform, device_config_entry, ready,
                    resolves>>

\* platform.TRIGGER_SCHEMA(config) rejects the configuration
ValidateStaticRaises(err) ==
  /\ pc = "v_hasattr"
  /\ ~HasDynamicValidator(platform[1])
  /\ trace' = Append(trace, Ev("schema", ""))
  /\ delegated' = <<config>>
  /\ RaiseInTry(err, "schema")
  /\ UNCHANGED <<env, args, counters, platform, device_config_entry, ready,
                 platret, resolves>>

\* the platform has a dynamic validator: go on to the device lookup
ValidateDynamic ==
  /\ pc = "v_hasattr"
  /\ HasDynamicValidator(platform[1])
  /\ pc' = "v_lookup"
  /\ UNCHANGED <<env, args, counters, platform, device_config_entry, ready,
                 trace, delegated, platret, raised, raisedBy, outcome, retval,
                 error, resolves>>

\* registry.async_get(config[CONF_DEVICE_ID]) finds no device
ValidateDeviceMissing ==
  /\ pc = "v_lookup"
  /\ registry[config.device_id] = NoDevice
  /\ trace' = Append(trace, Ev("registry_get", config.device_id))
  /\ RaiseInTry(Bare, "internal")
  /\ UNCHANGED <<env, args, counters, platform, device_config_entry, ready,
                 delegated, platret, resolves>>

\* registry.async_get(config[CONF_DEVICE_ID]) finds the device
ValidateDeviceFound ==
  /\ pc = "v_lookup"
  /\ registry[config.device_id] # NoDevice
  /\ trace' = Append(trace, Ev("registry_get", config.device_id))
  /\ pc' = "v_scan"
  /\ UNCHANGED <<env, args, counters, platform, device_config_entry, ready,
                 delegated, platret, raised, raisedBy, outcome, retval, error,
                 resolves>>

\* the scan ends without a match: raise InvalidDeviceAutomationConfig
ValidateNoEntry ==
  /\ pc = "v_scan"
  /\ LET ids == registry[config.device_id][1].config_entries
         k == ScanEntries(ids, 1, config.domain)
     IN /\ k = 0
        /\ trace' = trace \o Lookups(ids, k)
  /\ RaiseInTry(Bare, "internal")
  /\ UNCHANGED <<env, args, counters, platform, device_config_entry, ready,
                 delegated, platret, resolves>>

\* the scan breaks at a match: device_config_entry = entry
ValidateEntryFound ==
  /\ pc = "v_scan"
  /\ LET ids == registry[config.device_id][1].config_entries
         k == ScanEntries(ids, 1, config.domain)
     IN /\ k # 0
        /\ trace' = trace \o Lookups(ids, k)
        /\ device_config_entry' = <<ids[k]>>
  /\ pc' = "v_wait"
  /\ UNCHANGED <<env, args, counters, platform, ready, delegated, platret,
                 raised, raisedBy, outcome, retval, error, resolves>>

\* await async_wait_component(device_config_entry) returns False
ValidateNotReadyDelegates ==
  /\ pc = "v_wait"
  /\ trace' = Append(trace, Ev("wait", device_config_entry[1]))
  /\ ready' = <<FALSE>>
  /\ pc' = "v_validate"
  /\ UNCHANGED <<env, args, counters, platform, device_config_entry, delegated,
                 platret, raised, raisedBy, outcome, retval, error, resolves>>

ValidateNotReady ==
  /\ pc = "v_wait"
  /\ trace' = Append(trace, Ev("wait", device_config_entry[1]))
  /\ ready' = <<FALSE>>
  /\ ReturnValue(config)
  /\ UNCHANGED <<env, args, counters, platform, device_config_entry, delegated,
                 platret, resolves>>

\* await async_wait_component(device_config_entry) returns True
ValidateReady ==
  /\ pc = "v_wait"
  /\ trace' = Append(trace, Ev("wait", device_config_entry[1]))
  /\ ready' = <<TRUE>>
  /\ pc' = "v_validate"
  /\ UNCHANGED <<env, args, counters, platform, device_config_entry, delegated,
                 platret, raised, raisedBy, outcome, retval, error, resolves>>

\* await platform.async_validate_trigger_config(hass, config) returns
ValidateDelegatedReturnsConfig ==
  /\ pc = "v_validate"
  /\ \E out \in Validated(config) :
     /\ trace' = Append(trace, Ev("validate", ""))
     /\ delegated' = <<config>>
     /\ platret' = <<out>>
     /\ ReturnValue(config)
     /\ UNCHANGED <<env, args, counters, platform, device_config_entry, ready,
                    resolves>>

ValidateDelegated ==
  /\ pc = "v_validate"
  /\ \E out \in Validated(config) :
     /\ trace' = Append(trace, Ev("validate", ""))
     /\ delegated' = <<config>>
     /\ platret' = <<out>>
     /\ ReturnValue(out)
     /\ UNCHANGED <<env, args, counters, platform, device_config_entry, ready,
                    resolves>>

\* await platform.async_validate_trigger_config(hass, config) raises
ValidateDelegatedRaises(err) ==
  /\ pc = "v_validate"
  /\ trace' = Append(trace, Ev("validate", ""))
  /\ delegated' = <<config>>
  /\ RaiseInTry(err, "validator")
  /\ UNCHANGED <<env, args, counters, platform, device_config_entry, ready,
                 platret, resolves>>

(* ----------------------- async_attach_trigger -------------------------- *)
\* the caller starts attach(config, action, trigger_info)
CallAttach(c, a, t) ==
  /\ pc = "idle"
  /\ calls < MaxCalls
  /\ op' = "attach"
  /\ config' = c
  /\ action' = a
  /\ trigger_info' = t
  /\ calls' = calls + 1
  /\ pc' = "a_resolve"
  /\ UNCHANGED <<env, validated, platform, device_config_entry, ready, trace,
                 delegated, platret, raised, raisedBy, outcome, retval, error,
                 resolves>>

\* await async_get_device_automation_platform(...) returns a platform
AttachResolved(p) ==
  /\ pc = "a_resolve"
  /\ trace' = Append(trace, Ev("resolve", config.domain))
  /\ resolves' = resolves + 1
  /\ platform' = <<p>>
  /\ pc' = "a_attach"
  /\ UNCHANGED <<env, args, counters, device_config_entry, ready, delegated,
                 platret, raised, raisedBy, outcome, retval, error>>

\* await async_get_device_automation_platform(...) raises
AttachResolveRaisesTranslated(err) ==
  /\ pc = "a_resolve"
  /\ trace' = Append(trace, Ev("resolve", config.domain))
  /\ resolves' = resolves + 1
  /\ RaiseInTry(err, "resolver")
  /\ UNCHANGED <<env, args, counters, platform, device_config_entry, ready,
                 delegated, platret>>

AttachResolveRaises(err) ==
  /\ pc = "a_resolve"
  /\ trace' = Append(trace, Ev("resolve", config.domain))
  /\ resolves' = resolves + 1
  /\ RaiseBare(err, "resolver")
  /\ UNCHANGED <<env, args, counters, platform, device_config_entry, ready,
                 delegated, platret>>

\* await platform.async_attach_trigger(hass, config, action, trigger_info)
\* returns a detach handle
AttachDelegated(h) ==
  /\ pc = "a_attach"
  /\ trace' = Append(trace, Ev("attach", ""))
  /\ delegated' = AttachArgs(config, action, trigger_info)
  /\ platret' = <<h>>
  /\ ReturnValue(h)
  /\ UNCHANGED <<env, args, counters, platform, device_config_entry, ready,
                 resolves>>

\* await platform.async_attach_trigger(...) raises
AttachDelegatedRaises(err) ==
  /\ pc = "a_attach"
  /\ trace' = Append(trace, Ev("attach", ""))
  /\ delegated' = AttachArgs(config, action, trigger_info)
  /\ RaiseBare(err, "attach")
  /\ UNCHANGED <<env, args, counters, platform, device_config_entry, ready,
                 platret, resolves>>

(* ------------------------------ caller --------------------------------- *)
\* the caller has the result or the error of the call; the call's locals die
Finish ==
  /\ pc = "done"
  /\ pc' = "idle"
  /\ op' = "none"
  /\ config' = <<>>
  /\ action' = "none"
  /\ trigger_info' = "none"
  /\ platform' = <<>>
  /\ device_config_entry' = <<>>
  /\ ready' = <<>>
  /\ trace' = <<>>
  /\ delegated' = <<>>
  /\ platret' = <<>>
  /\ raised' = <<>>
  /\ raisedBy' = "none"
  /\ outcome' = "none"
  /\ retval' = <<>>
  /\ error' = <<>>
  /\ UNCHANGED <<env, counters, resolves>>

Next ==
  \/ \E c \in Configs : CallValidate(c)
  \/ \E p \in Platforms : ValidateResolved(p)
  \/ \E err \in Errors : ValidateResolveRaises(err)
  \/ ValidateStatic
  \/ \E err \in SchemaErrors : ValidateStaticRaises(err)
  \/ ValidateDynamic
  \/ ValidateDeviceMissing
  \/ ValidateDeviceFound
  \/ ValidateNoEntry
  \/ ValidateEntryFound
  \/ ValidateNotReady
  \/ ValidateReady
  \/ ValidateDelegated
  \/ \E err \in Errors : ValidateDelegatedRaises(err)
  \/ \E c \in Configs, a \in Actions, t \in TriggerInfos : CallAttach(c, a, t)
  \/ \E p \in Platforms : AttachResolved(p)
  \/ \E err \in Errors : AttachResolveRaises(err)
  \/ \E h \in Handles : AttachDelegated(h)
  \/ \E err \in Errors : AttachDelegatedRaises(err)
  \/ Finish

Spec == Init /\ [][Next]_vars

(* ------------------------- vocabulary of the claims -------------------- *)
HasEv(e) == \E i \in 1..Len(trace) : trace[i].ev = e
Count(e) == Cardinality({i \in 1..Len(trace) : trace[i].ev = e})
EvArgs(e) == SelectSeq(trace, LAMBDA x : x.ev = e)

Rank(e) ==
  CASE e = "resolve" -> 1
    [] e = "schema" -> 2
    [] e = "registry_get" -> 2
    [] e = "get_entry" -> 3
    [] e = "wait" -> 4
    [] e = "validate" -> 5
    [] OTHER -> 0

InValidate == op = "validate"
InAttach == op = "attach"
Static == InValidate /\ platform # <<>> /\ ~platform[1].dynamic
Dynamic == InValidate /\ platform # <<>> /\ platform[1].dynamic
DeviceKnown == registry[config.device_id] # NoDevice
DeviceEntries == registry[config.device_id][1].config_entries
Matching == {i \in 1..Len(DeviceEntries) : entries[DeviceEntries[i]] = config.domain}
FirstMatching == CHOOSE i \in Matching : \A j \in Matching : i <= j
Translated(e) ==
  /\ error # <<>>
  /\ error[1].kind = VolInvalid
  /\ error[1].msg = (IF e.msg = "" THEN "Invalid trigger configuration" ELSE e.msg)

(* C1: when the resolved platform has no dynamic validator, validate calls  *)
(* only the resolver and the static schema (no device registry lookup, no   *)
(* config-entry lookup, no readiness wait, no dynamic validator), applies   *)
(* the schema once to the config, and what it returns is the schema's       *)
(* output.                                                                  *)
C1_StaticSchemaOnly ==
  Static =>
    /\ pc \in {"v_hasattr", "done"}
    /\ \A i \in 1..Len(trace) : trace[i].ev \in {"resolve", "schema"}
    /\ device_config_entry = <<>>
    /\ ready = <<>>
    /\ (pc = "done" => Count("schema") = 1 /\ delegated = <<config>>)
    /\ (pc = "done" /\ outcome = "returned" => platret # <<>> /\ retval = platret)

C1_Witness ==
  /\ Static
  /\ pc = "done"
  /\ outcome = "returned"
  /\ retval[1] # config

(* C2: when the readiness wait on the matched entry answers False, validate *)
(* returns the original config, raises nothing, and never calls the         *)
(* platform's dynamic validator.                                            *)
C2_NeverReadyPassThrough ==
  (InValidate /\ ready = <<FALSE>>) =>
    /\ pc = "done"
    /\ outcome = "returned"
    /\ retval = <<config>>
    /\ error = <<>>
    /\ ~HasEv("validate")
    /\ delegated = <<>>
    /\ platret = <<>>

C2_Witness ==
  /\ InValidate
  /\ ready = <<FALSE>>
  /\ pc = "done"
  /\ HasEv("wait")

(* C3: the entry validate waits on is the first entry, in the device's      *)
(* stored order, whose domain is the config's domain; the entries looked up *)
(* are exactly those up to and including it, so later entries are never     *)
(* considered, and no other entry is ever waited on.                        *)
C3_FirstMatchSelected ==
  (InValidate /\ device_config_entry # <<>>) =>
    /\ DeviceKnown
    /\ \E k \in 1..Len(DeviceEntries) :
         /\ DeviceEntries[k] = device_config_entry[1]
         /\ entries[DeviceEntries[k]] = config.domain
         /\ \A j \in 1..(k - 1) : entries[DeviceEntries[j]] # config.domain
         /\ EvArgs("get_entry") = [i \in 1..k |-> Ev("get_entry", DeviceEntries[i])]
    /\ Count("wait") <= 1
    /\ \A i \in 1..Len(trace) :
         trace[i].ev = "wait" => trace[i].arg = device_config_entry[1]

C3_Witness ==
  /\ InValidate
  /\ HasEv("wait")
  /\ Len(DeviceEntries) = 2
  /\ entries[DeviceEntries[1]] \in Domains \ {config.domain}
  /\ device_config_entry = <<DeviceEntries[2]>>
  /\ ready = <<TRUE>>
  /\ pc = "done"
  /\ delegated = <<config>>

(* C4: with a dynamic-validation platform, an unknown device_id or a device *)
(* without an entry of the config's domain makes validate fail with         *)
(* vol.Invalid("Invalid trigger configuration"); neither the readiness wait *)
(* nor the dynamic validator is called.                                     *)
C4_NoDeviceOrEntryFails ==
  (Dynamic /\ (~DeviceKnown \/ Matching = {})) =>
    /\ pc \in {"v_hasattr", "v_lookup", "v_scan", "done"}
    /\ ~HasEv("wait")
    /\ ~HasEv("validate")
    /\ ready = <<>>
    /\ delegated = <<>>
    /\ (pc = "done" =>
          /\ outcome = "raised"
          /\ retval = <<>>
          /\ error # <<>>
          /\ error[1].kind = VolInvalid
          /\ error[1].msg = "Invalid trigger configuration")

C4_Witness ==
  /\ Dynamic
  /\ DeviceKnown
  /\ DeviceEntries = <<>>
  /\ pc = "done"
  /\ outcome = "raised"

C4_WitnessNoDevice ==
  /\ Dynamic
  /\ ~DeviceKnown
  /\ pc = "done"
  /\ outcome = "raised"

(* C5: the dynamic validator is called only after the readiness wait has    *)
(* answered True, exactly once, with the original config, and validate      *)
(* returns what it returned; the collaborators are always called in the     *)
(* order resolver, device registry, config entries, readiness wait, dynamic *)
(* validator.                                                               *)
C5_ValidatorAfterReady ==
  InValidate =>
    /\ (pc = "v_validate" => ready = <<TRUE>>)
    /\ (HasEv("validate") =>
          /\ ready = <<TRUE>>
          /\ Count("validate") = 1
          /\ Count("wait") = 1
          /\ Len(trace) >= 2
          /\ trace[Len(trace)].ev = "validate"
          /\ trace[Len(trace) - 1].ev = "wait"
          /\ delegated = <<config>>
          /\ pc = "done"
          /\ (outcome = "returned" => platret # <<>> /\ retval = platret))
    /\ \A i, j \in 1..Len(trace) :
         i < j => \/ Rank(trace[i].ev) < Rank(trace[j].ev)
                  \/ trace[i].ev = "get_entry" /\ trace[j].ev = "get_entry"

C5_Witness ==
  /\ InValidate
  /\ pc = "done"
  /\ HasEv("validate")
  /\ outcome = "returned"
  /\ retval[1] # config
  /\ Count("get_entry") = 2

(* C6: every attach call makes one resolver call of its own, then one call  *)
(* of the platform's attach capability with the config, action and          *)
(* trigger_info it was given, and returns that capability's handle; it      *)
(* calls nothing else (no registry, no config entries, no validation), and  *)
(* does not need an earlier validate of the config.                         *)
C6_AttachForwards ==
  /\ resolves = calls - (IF pc \in {"v_resolve", "a_resolve"} THEN 1 ELSE 0)
  /\ InAttach =>
       /\ \A i \in 1..Len(trace) : trace[i].ev \in {"resolve", "attach"}
       /\ device_config_entry = <<>>
       /\ ready = <<>>
       /\ (pc = "a_resolve" => trace = <<>>)
       /\ (pc = "a_attach" => trace = <<Ev("resolve", config.domain)>>)
       /\ (pc = "done" /\ platform # <<>> =>
             /\ trace = <<Ev("resolve", config.domain), Ev("attach", "")>>
             /\ delegated = <<config, action, trigger_info>>)
       /\ (pc = "done" /\ outcome = "returned" =>
             platform # <<>> /\ platret # <<>> /\ retval = platret)

C6_Witness ==
  /\ InAttach
  /\ pc = "done"
  /\ outcome = "returned"
  /\ config \notin validated
  /\ calls = 2
  /\ resolves = 2

(* C7: in validate an InvalidDeviceAutomationConfig, whether raised by the  *)
(* resolver, by the device lookup, by the entry scan or by the platform's   *)
(* dynamic validator, never reaches the caller: the caller gets vol.Invalid *)
(* carrying the condition's message, or "Invalid trigger configuration"     *)
(* when that message is empty.                                              *)
C7_InternalConditionTranslated ==
  (InValidate /\ pc = "done") =>
    /\ (error # <<>> => error[1].kind # InvalidDeviceAutomationConfig)
    /\ (raised # <<>> /\ raised[1].kind = InvalidDeviceAutomationConfig =>
          /\ outcome = "raised"
          /\ Translated(raised[1]))

C7_Witness ==
  /\ InValidate
  /\ pc = "done"
  /\ raisedBy = "validator"
  /\ raised[1].kind = InvalidDeviceAutomationConfig
  /\ raised[1].msg # ""

C7_WitnessResolver ==
  /\ InValidate
  /\ pc = "done"
  /\ raisedBy = "resolver"
  /\ raised[1].kind = InvalidDeviceAutomationConfig
  /\ raised[1].msg = ""

(* C8 as claimed: every error raised by the platform's dynamic validator or *)
(* attach capability reaches the caller as that same error.                 *)
C8_Original ==
  (pc = "done" /\ raisedBy \in {"validator", "attach"}) => error = raised

(* C8 amended: every error raised by the platform's attach capability, and  *)
(* every error other than InvalidDeviceAutomationConfig raised by the       *)
(* platform's dynamic validator, reaches the caller as that same error; an  *)
(* InvalidDeviceAutomationConfig raised by the dynamic validator reaches    *)
(* the caller as vol.Invalid with its message or the default message.       *)
C8_PlatformErrors ==
  /\ (pc = "done" /\ raisedBy = "attach") => error = raised
  /\ (pc = "done" /\ raisedBy = "validator") =>
       IF raised[1].kind = InvalidDeviceAutomationConfig
       THEN Translated(raised[1])
       ELSE error = raised

C8_Witness ==
  /\ pc = "done"
  /\ raisedBy = "validator"
  /\ raised[1].kind = "HomeAssistantError"
  /\ outcome = "raised"

(* C9 as claimed: every error raised by the resolver reaches the caller of  *)
(* validate and of attach as that same error, and nothing is called after   *)
(* the failed resolution.                                                   *)
C9_Original ==
  (pc = "done" /\ raisedBy = "resolver") =>
    /\ error = raised
    /\ trace = <<Ev("resolve", config.domain)>>

(* C9 amended: every error raised by the resolver reaches the caller of     *)
(* attach as that same error, and so does every resolver error other than   *)
(* InvalidDeviceAutomationConfig in validate; an                            *)
(* InvalidDeviceAutomationConfig raised by the resolver in validate reaches *)
(* the caller as vol.Invalid with its message or the default message.  In   *)
(* all cases nothing is called after the failed resolution.                 *)
C9_ResolverErrors ==
  (pc = "done" /\ raisedBy = "resolver") =>
    /\ trace = <<Ev("resolve", config.domain)>>
    /\ platform = <<>>
    /\ device_config_entry = <<>>
    /\ ready = <<>>
    /\ delegated = <<>>
    /\ outcome = "raised"
    /\ IF InValidate /\ raised[1].kind = InvalidDeviceAutomationConfig
       THEN Translated(raised[1])
       ELSE error = raised

C9_Witness ==
  /\ pc = "done"
  /\ raisedBy = "resolver"
  /\ InAttach
  /\ raised[1].kind = InvalidDeviceAutomationConfig

C9_WitnessValidate ==
  /\ pc = "done"
  /\ raisedBy = "resolver"
  /\ InValidate
  /\ raised[1].kind = "HomeAssistantError"

(* C10: an entry id the config-entry manager does not know is skipped: once *)
(* the scan is over, the selected entry is the first known entry of the     *)
(* config's domain even when unknown ids precede it, an unknown id is never *)
(* selected and raises nothing, and when every id is unknown or of another  *)
(* domain validate fails with vol.Invalid.                                  *)
ScanOver == Dynamic /\ DeviceKnown /\ HasEv("registry_get") /\ pc # "v_scan"

C10_UnresolvableSkipped ==
  ScanOver =>
    IF Matching = {}
    THEN /\ pc = "done"
         /\ outcome = "raised"
         /\ raisedBy = "internal"
         /\ error[1].kind = VolInvalid
         /\ device_config_entry = <<>>
         /\ Count("get_entry") = Len(DeviceEntries)
    ELSE /\ device_config_entry = <<DeviceEntries[FirstMatching]>>
         /\ entries[device_config_entry[1]] # Absent
         /\ Count("get_entry") = FirstMatching
         /\ (raised # <<>> => raisedBy = "validator")

C10_Witness ==
  /\ ScanOver
  /\ Len(DeviceEntries) = 2
  /\ entries[DeviceEntries[1]] = Absent
  /\ device_config_entry = <<DeviceEntries[2]>>
  /\ HasEv("wait")

C10_WitnessAllSkipped ==
  /\ ScanOver
  /\ Len(DeviceEntries) = 2
  /\ entries[DeviceEntries[1]] = Absent
  /\ entries[DeviceEntries[2]] \in Domains \ {config.domain}
  /\ pc = "done"

TypeOK ==
  /\ pc \in {"idle", "v_resolve", "v_hasattr", "v_lookup", "v_scan", "v_wait",
             "v_validate", "a_resolve", "a_attach", "done"}
  /\ op \in {"none", "validate", "attach"}
  /\ calls \in 0..MaxCalls
  /\ outcome \in {"none", "returned", "raised"}

====
